---- MODULE Spec2Model ----
(***************************************************************************)
(* Model of job-monitor (src/main.py): scrape -> normalise -> filter ->    *)
(* diff -> notify -> persist.                                              *)
(*                                                                         *)
(* Python strings are sequences of one-character strings, so that          *)
(* str.lower(), str.strip() and the substring test `in` are computed.      *)
(* A job listing is the dict {"firm", "title", "location", "link"}.        *)
(* A call that may raise returns [raised |-> <exception or "none">,        *)
(* value |-> <result>].                                                    *)
(***************************************************************************)
EXTENDS Integers, Sequences, FiniteSets, TLC

VARIABLES
    pc,             \* position of the process (or of the function under call)
    call,           \* the arguments of the function under call
    ret,            \* what the call returned
    keywords,       \* config["keywords"]
    locations,      \* config["locations"]
    all_jobs,       \* __main__: all_jobs
    previous_jobs,  \* __main__: previous_jobs
    new_jobs,       \* __main__: new_jobs
    target,         \* index of the next target of the loop the process is in
    file,           \* contents of jobs.json, or NoFile
    env_reads,      \* os.environ[...] lookups made in this run
    smtp_sessions,  \* smtplib.SMTP sessions opened in this run
    sent,           \* messages handed to server.send_message in this run
    fetched,        \* targets for which an HTTP GET was issued in this run
    fault,          \* what was wrong with the last HTTP response, or "none"
    raised,         \* the unhandled exception that ended this run, or NoError
    run,            \* number of runs started
    file_at_start,  \* contents of jobs.json when this run started
    reported        \* listings notified by earlier runs that completed

vars == <<pc, call, ret, keywords, locations, all_jobs, previous_jobs, new_jobs,
          target, file, env_reads, smtp_sessions, sent, fetched, fault,
          raised, run, file_at_start, reported>>

main_vars == <<keywords, locations, all_jobs, previous_jobs, new_jobs, target,
               file, env_reads, smtp_sessions, sent, fetched, fault, raised,
               run, file_at_start, reported>>

-----------------------------------------------------------------------------
(* Bounds *)

\* longest list of jobs handed to filter_jobs
MaxJobs == 2
\* longest keyword list and longest location list
MaxCrit == 2
\* longest current list and longest seen list handed to identify_new_jobs
MaxDiffLen == 3
\* most listings in one HTTP response
MaxListings == 2
\* most runs of the program
MaxRuns == 2

-----------------------------------------------------------------------------
(* Strings *)

Range(s) == {s[i] : i \in 1..Len(s)}

SeqsUpTo(S, n) == UNION {[1..k -> S] : k \in 0..n}

UpperToLower ==
    [E |-> "e", N |-> "n", G |-> "g", S |-> "s", R |-> "r", M |-> "m", Y |-> "y"]

lower_char(c) == IF c \in DOMAIN UpperToLower THEN UpperToLower[c] ELSE c

\* str.lower()
str_lower(s) == [i \in 1..Len(s) |-> lower_char(s[i])]

\* sub in s
str_in(sub, s) ==
    \E off \in 0..(Len(s) - Len(sub)) : SubSeq(s, off + 1, off + Len(sub)) = sub

RECURSIVE str_lstrip(_)
str_lstrip(s) ==
    IF s # <<>> /\ Head(s) = " " THEN str_lstrip(Tail(s)) ELSE s

RECURSIVE str_rstrip(_)
str_rstrip(s) ==
    IF s # <<>> /\ s[Len(s)] = " " THEN str_rstrip(SubSeq(s, 1, Len(s) - 1)) ELSE s

\* Tag.get_text(strip=True) of an element holding one text node
get_text_strip(s) == str_rstrip(str_lstrip(s))

RECURSIVE str_join(_, _)
\* sep.join(parts)
str_join(sep, parts) ==
    IF parts = <<>> THEN <<>>
    ELSE IF Len(parts) = 1 THEN parts[1]
    ELSE parts[1] \o sep \o str_join(sep, Tail(parts))

-----------------------------------------------------------------------------
(* filter_jobs *)

filter_jobs_or(jobs, kws, locs) ==
    SelectSeq(jobs, LAMBDA job :
        \/ \E i \in 1..Len(kws) : str_in(str_lower(kws[i]), str_lower(job.title))
        \/ \E i \in 1..Len(locs) : str_in(str_lower(locs[i]), str_lower(job.location)))

filter_jobs_vacuous(jobs, kws, locs) ==
    SelectSeq(jobs, LAMBDA job :
        /\ kws = <<>> \/ \E i \in 1..Len(kws) :
               str_in(str_lower(kws[i]), str_lower(job.title))
        /\ locs = <<>> \/ \E i \in 1..Len(locs) :
               str_in(str_lower(locs[i]), str_lower(job.location)))

filter_jobs(jobs, kws, locs) ==
    SelectSeq(jobs, LAMBDA job :
        /\ \E i \in 1..Len(kws) : str_in(str_lower(kws[i]), str_lower(job.title))
        /\ \E i \in 1..Len(locs) : str_in(str_lower(locs[i]), str_lower(job.location)))

-----------------------------------------------------------------------------
(* identify_new_jobs *)

identify_new_jobs_first_only(jobs, seen_jobs) ==
    SelectSeq(jobs, LAMBDA job : seen_jobs = <<>> \/ job # seen_jobs[1])

identify_new_jobs(jobs, seen_jobs) ==
    SelectSeq(jobs, LAMBDA job : ~ \E i \in 1..Len(seen_jobs) : seen_jobs[i] = job)

-----------------------------------------------------------------------------
(* Collector, API path *)

HTTP_OK == 200

None == [shape |-> "none"]

\* the exception a call ended with
Raise(exc) == [raised |-> exc, value |-> <<>>]
Return(v) == [raised |-> "none", value |-> v]

\* response: [status_code, json]; the function returns None on a non-200 status
call_job_listing_api(response) ==
    IF response.status_code = HTTP_OK THEN response.json ELSE None

\* the exception building one record raises, or "none"
api_record_exc(job, params) ==
    IF "title" \notin DOMAIN params \/ params.title \notin DOMAIN job THEN "KeyError"
    ELSE IF "location" \notin DOMAIN params \/ params.location \notin DOMAIN job
        THEN "KeyError"
    ELSE IF "link" \notin DOMAIN params THEN "KeyError"
    ELSE IF params.link # "" /\ params.link \notin DOMAIN job THEN "KeyError"
    ELSE "none"

api_record(job, firm_name, params) ==
    [firm |-> firm_name,
     title |-> job[params.title],
     location |-> job[params.location],
     link |-> IF params.link # "" THEN job[params.link] ELSE <<>>]

\* data: None, [shape |-> "array", items], or [shape |-> "object", fields]
process_api_response(data, firm_name, params) ==
    IF data.shape = "object"
          /\ ("key" \notin DOMAIN params \/ params.key \notin DOMAIN data.fields)
        THEN Raise("KeyError")
    ELSE IF data.shape = "none" THEN Raise("TypeError")
    ELSE LET items == IF data.shape = "object" THEN data.fields[params.key]
                      ELSE data.items
             bad == {i \in 1..Len(items) : api_record_exc(items[i], params) # "none"}
         IN  IF bad # {}
             THEN Raise(api_record_exc(items[CHOOSE i \in bad : \A j \in bad : i <= j],
                                       params))
             ELSE Return([i \in 1..Len(items) |-> api_record(items[i], firm_name, params)])

-----------------------------------------------------------------------------
(* Collector, HTML path *)

\* A listing container found by soup.find_all is a record of what its finds
\* return, each a sequence of length 0 (None) or 1:
\*   title, location : the text of the child job.find(tag, class_=...) returns
\*   a_href          : the href of the first anchor job.find("a", href=True) returns
\*   href            : the container's own href attribute
container_exc(job) ==
    IF job.title = <<>> THEN "AttributeError"
    ELSE IF job.location = <<>> THEN "AttributeError"
    ELSE IF job.a_href = <<>> /\ job.href = <<>> THEN "KeyError"
    ELSE "none"

container_record(job, firm_name) ==
    [firm |-> firm_name,
     title |-> get_text_strip(job.title[1]),
     location |-> get_text_strip(job.location[1]),
     link |-> IF job.a_href # <<>> THEN job.a_href[1] ELSE job.href[1]]

\* response: [status_code, content], content the containers find_all returns
scrape_job_listings(firm_name, response) ==
    LET found == response.content
        bad == {i \in 1..Len(found) : container_exc(found[i]) # "none"}
    IN  IF bad # {}
        THEN Raise(container_exc(found[CHOOSE i \in bad : \A j \in bad : i <= j]))
        ELSE Return([i \in 1..Len(found) |-> container_record(found[i], firm_name)])

-----------------------------------------------------------------------------
(* Persistence *)

NoFile == [exists |-> FALSE]

\* FileNotFoundError -> []
load_jobs(f) == IF f.exists THEN f.content ELSE <<>>

save_jobs(jobs) == [exists |-> TRUE, content |-> jobs]

-----------------------------------------------------------------------------
(* Notifier *)

MailVars == {"MAIL_SENDER", "MAIL_RECIPIENT", "MAIL_HOST", "MAIL_PORT", "MAIL_PASSWORD"}

SmtpOutcomes == {"ok", "connect", "starttls", "login", "send", "quit"}

NoEffect == [env_reads |-> {}, sessions |-> 0, sent |-> <<>>, raised |-> "none"]

NL == <<"\n">>

job_lines(job) ==
    job.firm \o <<" ", "-", " ">> \o job.title \o <<" ", "-", " ">> \o job.location
        \o NL \o job.link

message(jobs) ==
    [Subject |-> "New MLE Job Openings",
     From |-> "MAIL_SENDER",
     To |-> "MAIL_RECIPIENT",
     body |-> str_join(NL, [i \in 1..Len(jobs) |-> job_lines(jobs[i])]),
     jobs |-> jobs]

\* what the call does after the guard on an empty list: the lookups in
\* os.environ in order, the SMTP session, the message; smtp says where the
\* SMTP exchange fails, if anywhere ("quit": leaving the with block, after the
\* message has gone out)
send_nonempty(jobs, environ, smtp) ==
    LET Fail(reads, sessions, exc) ==
            [env_reads |-> reads, sessions |-> sessions, sent |-> <<>>, raised |-> exc]
        r1 == {"MAIL_SENDER"}
        r2 == r1 \cup {"MAIL_RECIPIENT"}
        r3 == r2 \cup {"MAIL_HOST"}
        r4 == r3 \cup {"MAIL_PORT"}
        r5 == r4 \cup {"MAIL_PASSWORD"}
    IN  IF "MAIL_SENDER" \notin environ THEN Fail(r1, 0, "KeyError")
        ELSE IF "MAIL_RECIPIENT" \notin environ THEN Fail(r2, 0, "KeyError")
        ELSE IF "MAIL_HOST" \notin environ THEN Fail(r3, 0, "KeyError")
        ELSE IF "MAIL_PORT" \notin environ THEN Fail(r4, 0, "KeyError")
        ELSE IF smtp = "connect" THEN Fail(r4, 1, "SMTPConnectError")
        ELSE IF smtp = "starttls" THEN Fail(r4, 1, "SMTPException")
        ELSE IF "MAIL_PASSWORD" \notin environ THEN Fail(r5, 1, "KeyError")
        ELSE IF smtp = "login" THEN Fail(r5, 1, "SMTPAuthenticationError")
        ELSE IF smtp = "send" THEN Fail(r5, 1, "SMTPException")
        ELSE IF smtp = "quit"
        THEN [env_reads |-> r5, sessions |-> 1, sent |-> <<message(jobs)>>,
              raised |-> "SMTPResponseException"]
        ELSE [env_reads |-> r5, sessions |-> 1, sent |-> <<message(jobs)>>,
              raised |-> "none"]

send_email_notification_unguarded(jobs, environ, smtp) ==
    send_nonempty(jobs, environ, smtp)

send_email_notification(jobs, environ, smtp) ==
    IF jobs = <<>> THEN NoEffect ELSE send_nonempty(jobs, environ, smtp)

-----------------------------------------------------------------------------
(* Inputs *)

Eng == <<"E", "n", "g">>
RawEng == <<" ", "E", "n", "g", " ">>
SEng == <<"s", "E", "N", "G">>
Sal == <<"S", "a", "l">>
Rem == <<"R", "e", "m">>
NY == <<"N", "Y">>

TitlePool == {Eng, SEng, Sal}
JobLocationPool == {Rem, NY}
\* "" is a substring of every title; "eg" is a subsequence of "Eng", not a substring
KeywordPool == {<<>>, <<"e", "n", "g">>, <<"S", "E">>, <<"e", "g">>}
LocationPool == {<<"r", "e", "m">>, <<"n", "y">>, <<"m", "e">>}

FilterJobPool ==
    [firm : {<<"F">>}, title : TitlePool, location : JobLocationPool, link : {<<"u">>}]

\* listings that differ in one field only
DiffJobPool ==
    {[firm |-> <<"F">>, title |-> Eng, location |-> Rem, link |-> <<"u">>],
     [firm |-> <<"F">>, title |-> Eng, location |-> Rem, link |-> <<"v">>],
     [firm |-> <<"G">>, title |-> Eng, location |-> Rem, link |-> <<"u">>]}

\* config.yaml
ConfigChoices ==
    {[keywords |-> <<<<"e", "n", "g">>>>, locations |-> <<<<"r", "e", "m">>>>],
     [keywords |-> <<>>, locations |-> <<<<"r", "e", "m">>>>]}

soup_targets == <<<<"S">>>>

ApiParamsFull == [key |-> "results", title |-> "t", location |-> "l", link |-> "u"]

api_targets == <<[firm |-> <<"A">>, params |-> ApiParamsFull]>>

\* the link field configured, configured empty, not configured; no key configured
ApiParams ==
    {ApiParamsFull,
     [key |-> "results", title |-> "t", location |-> "l", link |-> ""],
     [key |-> "results", title |-> "t", location |-> "l"],
     [title |-> "t", location |-> "l", link |-> "u"]}

ApiElems ==
    {[t |-> Eng, l |-> Rem, u |-> <<"w">>],
     [t |-> Sal, l |-> NY, u |-> <<"x">>],
     [l |-> Rem, u |-> <<"w">>]}

ApiData ==
    LET arrays == SeqsUpTo(ApiElems, MaxListings)
    IN  {None}
        \cup {[shape |-> "array", items |-> a] : a \in arrays}
        \cup {[shape |-> "object", fields |-> [results |-> a]] : a \in arrays}
        \cup {[shape |-> "object", fields |-> [jobs |-> a]] : a \in arrays}

StatusCodes == {HTTP_OK, 404}

ApiResponses == [status_code : StatusCodes, json : ApiData \ {None}]

Containers ==
    {[title |-> t, location |-> l, a_href |-> h[1], href |-> h[2]] :
        t \in {<<>>, <<RawEng>>, <<Sal>>},
        l \in {<<>>, <<Rem>>},
        h \in {<< <<<<"u">>>>, <<<<"v">>>> >>, << <<>>, <<<<"v">>>> >>, << <<>>, <<>> >>}}

SoupResponses == [status_code : StatusCodes, content : SeqsUpTo(Containers, MaxListings)]

Environs == {MailVars} \cup {MailVars \ {v} : v \in MailVars}

-----------------------------------------------------------------------------
(* The program: __main__ *)

\* the listings of the messages sent
notified(msgs) == UNION {Range(msgs[i].jobs) : i \in 1..Len(msgs)}

NoError == [exc |-> "none", phase |-> "none", target |-> 0]

RunStart ==
    /\ pc = "soup"
    /\ target = 1
    /\ all_jobs = <<>>
    /\ previous_jobs = <<>>
    /\ new_jobs = <<>>
    /\ env_reads = {}
    /\ smtp_sessions = 0
    /\ sent = <<>>
    /\ fetched = <<>>
    /\ fault = "none"
    /\ raised = NoError

Init ==
    /\ RunStart
    /\ call = [fn |-> "main"]
    /\ ret = <<>>
    /\ \E c \in ConfigChoices : keywords = c.keywords /\ locations = c.locations
    /\ file = NoFile
    /\ file_at_start = NoFile
    /\ reported = {}
    /\ run = 1

\* an HTML listing container lacks the title or the location child
soup_fault(response) ==
    IF \E i \in 1..Len(response.content) :
           response.content[i].title = <<>> \/ response.content[i].location = <<>>
    THEN "missing child" ELSE "none"

\* an API target answers with a non-success status
api_fault(response) ==
    IF response.status_code # HTTP_OK THEN "non-success status" ELSE "none"

Abort(exc) ==
    /\ pc' = "aborted"
    /\ raised' = [exc |-> exc, phase |-> pc, target |-> target]

ScrapeTargetSkipping ==
    /\ pc = "soup"
    /\ \E response \in SoupResponses :
        LET firm == soup_targets[target]
            jobs == scrape_job_listings(firm, response)
        IN  /\ fetched' = Append(fetched, firm)
            /\ fault' = soup_fault(response)
            /\ all_jobs' = all_jobs \o filter_jobs(jobs.value, keywords, locations)
            /\ IF target < Len(soup_targets)
               THEN target' = target + 1 /\ pc' = "soup"
               ELSE target' = 1 /\ pc' = "api"
            /\ UNCHANGED raised
    /\ UNCHANGED <<call, ret, keywords, locations, previous_jobs, new_jobs, file,
                   env_reads, smtp_sessions, sent, run, file_at_start, reported>>

\* one iteration of the loop over config["soup_targets"]
ScrapeTarget ==
    /\ pc = "soup"
    /\ \E response \in SoupResponses :
        LET firm == soup_targets[target]
            jobs == scrape_job_listings(firm, response)
        IN  /\ fetched' = Append(fetched, firm)
            /\ fault' = soup_fault(response)
            /\ IF jobs.raised # "none"
               THEN Abort(jobs.raised) /\ UNCHANGED <<all_jobs, target>>
               ELSE /\ all_jobs' = all_jobs \o filter_jobs(jobs.value, keywords, locations)
                    /\ IF target < Len(soup_targets)
                       THEN target' = target + 1 /\ pc' = "soup"
                       ELSE target' = 1 /\ pc' = "api"
                    /\ UNCHANGED raised
    /\ UNCHANGED <<call, ret, keywords, locations, previous_jobs, new_jobs, file,
                   env_reads, smtp_sessions, sent, run, file_at_start, reported>>

\* one iteration of the loop over config["api_targets"]
ApiTarget ==
    /\ pc = "api"
    /\ \E response \in ApiResponses :
        LET firm == api_targets[target].firm
            params == api_targets[target].params
            data == call_job_listing_api(response)
            jobs == process_api_response(data, firm, params)
        IN  /\ fetched' = Append(fetched, firm)
            /\ fault' = api_fault(response)
            /\ IF jobs.raised # "none"
               THEN Abort(jobs.raised) /\ UNCHANGED <<all_jobs, target>>
               ELSE /\ all_jobs' = all_jobs \o filter_jobs(jobs.value, keywords, locations)
                    /\ IF target < Len(api_targets)
                       THEN target' = target + 1 /\ pc' = "api"
                       ELSE target' = 1 /\ pc' = "load"
                    /\ UNCHANGED raised
    /\ UNCHANGED <<call, ret, keywords, locations, previous_jobs, new_jobs, file,
                   env_reads, smtp_sessions, sent, run, file_at_start, reported>>

\* previous_jobs = load_jobs(...); new_jobs = identify_new_jobs(...)
LoadAndDiff ==
    /\ pc = "load"
    /\ previous_jobs' = load_jobs(file)
    /\ new_jobs' = identify_new_jobs(all_jobs, previous_jobs')
    /\ pc' = "notify"
    /\ UNCHANGED <<call, ret, keywords, locations, all_jobs, target, file, env_reads,
                   smtp_sessions, sent, fetched, fault, raised, run, file_at_start,
                   reported>>

\* if new_jobs: send_email_notification(new_jobs)
Notify ==
    /\ pc = "notify"
    /\ pc' = IF new_jobs # <<>> THEN "send" ELSE "save"
    /\ UNCHANGED <<call, ret, main_vars>>

SendEmailSwallow ==
    /\ pc = "send"
    /\ \E environ \in Environs, smtp \in SmtpOutcomes :
        LET did == send_email_notification(new_jobs, environ, smtp)
        IN  /\ env_reads' = env_reads \cup did.env_reads
            /\ smtp_sessions' = smtp_sessions + did.sessions
            /\ sent' = sent \o did.sent
            /\ pc' = IF call.fn = "main" THEN "save" ELSE "returned"
            /\ UNCHANGED raised
    /\ UNCHANGED <<call, ret, keywords, locations, all_jobs, previous_jobs, new_jobs,
                   target, file, fetched, fault, run, file_at_start, reported>>

\* the call send_email_notification(new_jobs), from __main__ or on its own
SendEmail ==
    /\ pc = "send"
    /\ \E environ \in Environs, smtp \in SmtpOutcomes :
        LET did == send_email_notification(new_jobs, environ, smtp)
        IN  /\ env_reads' = env_reads \cup did.env_reads
            /\ smtp_sessions' = smtp_sessions + did.sessions
            /\ sent' = sent \o did.sent
            /\ IF did.raised # "none"
               THEN Abort(did.raised)
               ELSE /\ pc' = IF call.fn = "main" THEN "save" ELSE "returned"
                    /\ UNCHANGED raised
    /\ UNCHANGED <<call, ret, keywords, locations, all_jobs, previous_jobs, new_jobs,
                   target, file, fetched, fault, run, file_at_start, reported>>

SaveJobsOnlyNew ==
    /\ pc = "save"
    /\ previous_jobs' = new_jobs
    /\ file' = save_jobs(previous_jobs')
    /\ pc' = "done"
    /\ UNCHANGED <<call, ret, keywords, locations, all_jobs, new_jobs, target, env_reads,
                   smtp_sessions, sent, fetched, fault, raised, run, file_at_start,
                   reported>>

\* previous_jobs.extend(new_jobs); save_jobs(previous_jobs, "jobs.json")
SaveJobs ==
    /\ pc = "save"
    /\ previous_jobs' = previous_jobs \o new_jobs
    /\ file' = save_jobs(previous_jobs')
    /\ pc' = "done"
    /\ UNCHANGED <<call, ret, keywords, locations, all_jobs, new_jobs, target, env_reads,
                   smtp_sessions, sent, fetched, fault, raised, run, file_at_start,
                   reported>>

\* the process has ended; the program is run again
StartRun ==
    /\ pc \in {"done", "aborted"}
    /\ call.fn = "main"
    /\ run < MaxRuns
    /\ run' = run + 1
    /\ file_at_start' = file
    /\ pc' = "soup"
    /\ target' = 1
    /\ all_jobs' = <<>>
    /\ previous_jobs' = <<>>
    /\ new_jobs' = <<>>
    /\ env_reads' = {}
    /\ smtp_sessions' = 0
    /\ sent' = <<>>
    /\ fetched' = <<>>
    /\ fault' = "none"
    /\ raised' = NoError
    /\ reported' = IF pc = "done" THEN reported \cup notified(sent) ELSE reported
    /\ UNCHANGED <<call, ret, keywords, locations, file>>

Next ==
    \/ ScrapeTarget
    \/ ApiTarget
    \/ LoadAndDiff
    \/ Notify
    \/ SendEmail
    \/ SaveJobs
    \/ StartRun

Spec == Init /\ [][Next]_vars

-----------------------------------------------------------------------------
(* The functions called on their own, on every input of a bounded set *)

MainIdle ==
    /\ keywords = <<>>
    /\ locations = <<>>
    /\ all_jobs = <<>>
    /\ previous_jobs = <<>>
    /\ new_jobs = <<>>
    /\ target = 1
    /\ file = NoFile
    /\ env_reads = {}
    /\ smtp_sessions = 0
    /\ sent = <<>>
    /\ fetched = <<>>
    /\ fault = "none"
    /\ raised = NoError
    /\ run = 1
    /\ file_at_start = NoFile
    /\ reported = {}

InitFilter ==
    /\ pc = "call"
    /\ call \in [fn : {"filter_jobs"},
                 jobs : SeqsUpTo(FilterJobPool, MaxJobs),
                 keywords : SeqsUpTo(KeywordPool, MaxCrit),
                 locations : SeqsUpTo(LocationPool, MaxCrit)]
    /\ ret = <<>>
    /\ MainIdle

CallFilter ==
    /\ pc = "call"
    /\ call.fn = "filter_jobs"
    /\ ret' = filter_jobs(call.jobs, call.keywords, call.locations)
    /\ pc' = "returned"
    /\ UNCHANGED <<call, main_vars>>

SpecFilter == InitFilter /\ [][CallFilter]_vars

InitDiff ==
    /\ pc = "call"
    /\ call \in [fn : {"identify_new_jobs"},
                 jobs : SeqsUpTo(DiffJobPool, MaxDiffLen),
                 seen_jobs : SeqsUpTo(DiffJobPool, MaxDiffLen)]
    /\ ret = <<>>
    /\ MainIdle

CallDiff ==
    /\ pc = "call"
    /\ call.fn = "identify_new_jobs"
    /\ ret' = identify_new_jobs(call.jobs, call.seen_jobs)
    /\ pc' = "returned"
    /\ UNCHANGED <<call, main_vars>>

SpecDiff == InitDiff /\ [][CallDiff]_vars

InitApi ==
    /\ pc = "call"
    /\ call \in [fn : {"process_api_response"},
                 data : ApiData,
                 firm_name : {<<"A">>},
                 params : ApiParams]
    /\ ret = <<>>
    /\ MainIdle

CallApi ==
    /\ pc = "call"
    /\ call.fn = "process_api_response"
    /\ ret' = process_api_response(call.data, call.firm_name, call.params)
    /\ pc' = "returned"
    /\ UNCHANGED <<call, main_vars>>

SpecApi == InitApi /\ [][CallApi]_vars

InitScrape ==
    /\ pc = "call"
    /\ call \in [fn : {"scrape_job_listings"},
                 firm_name : {<<"S">>},
                 response : SoupResponses]
    /\ ret = <<>>
    /\ MainIdle

CallScrape ==
    /\ pc = "call"
    /\ call.fn = "scrape_job_listings"
    /\ ret' = scrape_job_listings(call.firm_name, call.response)
    /\ pc' = "returned"
    /\ UNCHANGED <<call, main_vars>>

SpecScrape == InitScrape /\ [][CallScrape]_vars

\* send_email_notification(jobs) for any list jobs, the empty one included:
\* the call is the action SendEmail
InitNotify ==
    /\ pc = "send"
    /\ call = [fn |-> "send_email_notification"]
    /\ ret = <<>>
    /\ \E jobs \in SeqsUpTo(DiffJobPool, MaxListings) :
        /\ new_jobs = jobs
        /\ keywords = <<>>
        /\ locations = <<>>
        /\ all_jobs = <<>>
        /\ previous_jobs = <<>>
        /\ target = 1
        /\ file = NoFile
        /\ env_reads = {}
        /\ smtp_sessions = 0
        /\ sent = <<>>
        /\ fetched = <<>>
        /\ fault = "none"
        /\ raised = NoError
        /\ run = 1
        /\ file_at_start = NoFile
        /\ reported = {}

\* the program, or send_email_notification called on its own
InitRunOrNotify == Init \/ InitNotify

SpecNotify == InitRunOrNotify /\ [][Next]_vars

-----------------------------------------------------------------------------
(* Properties *)

CasePairs ==
    {{"e", "E"}, {"n", "N"}, {"g", "G"}, {"s", "S"}, {"r", "R"}, {"m", "M"}, {"y", "Y"}}

SameLetter(c, d) == c = d \/ {c, d} \in CasePairs

\* a occurs in b as a run of consecutive characters, letter case aside
CaseInsensitiveSubstring(a, b) ==
    \E off \in 0..(Len(b) - Len(a)) : \A i \in 1..Len(a) : SameLetter(a[i], b[off + i])

\* result is input restricted to the positions in kept, order and multiplicity kept
IsSelection(result, input, kept) ==
    /\ Len(result) = Cardinality(kept)
    /\ \A i \in kept : result[Cardinality({j \in kept : j <= i})] = input[i]

StructurallyEqual(a, b) ==
    /\ a.firm = b.firm
    /\ a.title = b.title
    /\ a.location = b.location
    /\ a.link = b.link

Returned(fn) == call.fn = fn /\ pc = "returned"

MatchesCriteria(job, K, L) ==
    /\ \E k \in Range(K) : CaseInsensitiveSubstring(k, job.title)
    /\ \E l \in Range(L) : CaseInsensitiveSubstring(l, job.location)

\* C1: filter_jobs(jobs, K, L) is exactly the jobs, in input order and unaltered,
\* of which some keyword of K is a case-insensitive substring of the title and
\* some location of L is a case-insensitive substring of the location.
C1_FilterKeepsExactlyTheMatches ==
    Returned("filter_jobs") =>
        IsSelection(ret, call.jobs,
                    {i \in 1..Len(call.jobs) :
                        MatchesCriteria(call.jobs[i], call.keywords, call.locations)})

\* the second of two jobs is kept and the first dropped, on a keyword that
\* matches the title only when letter case is ignored
C1_Witness ==
    /\ Returned("filter_jobs")
    /\ Len(call.jobs) = 2
    /\ Len(call.keywords) = 2
    /\ ret = <<call.jobs[2]>>
    /\ call.jobs[1] # call.jobs[2]
    /\ \A i \in 1..Len(call.keywords) : ~ str_in(call.keywords[i], call.jobs[2].title)

\* C2: empty criteria match nothing: filter_jobs(jobs, [], L) = [] and
\* filter_jobs(jobs, K, []) = [].
C2_EmptyCriteriaMatchNothing ==
    Returned("filter_jobs") /\ (call.keywords = <<>> \/ call.locations = <<>>)
        => ret = <<>>

\* no keyword at all, and every job matches a location
C2_Witness ==
    /\ Returned("filter_jobs")
    /\ call.keywords = <<>>
    /\ Len(call.jobs) = 2
    /\ \A i \in 1..Len(call.jobs) :
          \E l \in Range(call.locations) :
              CaseInsensitiveSubstring(l, call.jobs[i].location)
    /\ ret = <<>>

\* C3: identify_new_jobs(J, S) is the subsequence of J, order and multiplicity
\* kept, of the listings structurally equal to no element of S; so
\* identify_new_jobs(J, []) = J and identify_new_jobs(J, J) = [].
C3_DiffIsTheUnseenSubsequence ==
    Returned("identify_new_jobs") =>
        /\ IsSelection(ret, call.jobs,
                       {i \in 1..Len(call.jobs) :
                           ~ \E s \in Range(call.seen_jobs) :
                                 StructurallyEqual(call.jobs[i], s)})
        /\ call.seen_jobs = <<>> => ret = call.jobs
        /\ call.seen_jobs = call.jobs => ret = <<>>

\* a listing that occurs twice is returned twice, beside a seen one that is
\* dropped and that differs from it in the link alone
C3_Witness ==
    /\ Returned("identify_new_jobs")
    /\ Len(call.jobs) = 3
    /\ Len(call.seen_jobs) = 2
    /\ Len(ret) = 2
    /\ ret[1] = ret[2]
    /\ call.jobs[2] \in Range(call.seen_jobs)
    /\ call.jobs[2].link # ret[1].link
    /\ [call.jobs[2] EXCEPT !.link = ret[1].link] = ret[1]

\* C4: with an empty list of new listings nothing of the notification happens
\* (no lookup in os.environ, no SMTP session, no message), in the call
\* send_email_notification([]) as in a run whose diff is empty; and at most one
\* message is sent, of the new listings, only when there are some.
C4_NoNotificationOfNothing ==
    /\ new_jobs = <<>> => env_reads = {} /\ smtp_sessions = 0 /\ sent = <<>>
    /\ call.fn = "send_email_notification" /\ new_jobs = <<>> /\ pc # "send"
          => pc = "returned"
    /\ call.fn = "main" /\ pc = "send" => new_jobs # <<>>
    /\ Len(sent) <= 1
    /\ sent # <<>> => new_jobs # <<>> /\ sent[1].jobs = new_jobs

\* send_email_notification([]) has returned
C4_Witness ==
    /\ Returned("send_email_notification")
    /\ new_jobs = <<>>
    /\ sent = <<>>

\* C5: when a run has completed, jobs.json holds what it held when the run
\* started (nothing, if there was no file) followed by the run's new listings in
\* order, the new listings being the scraped ones that were not stored.
C5_StoreIsPreviousThenNew ==
    call.fn = "main" /\ pc = "done" =>
        LET before == IF file_at_start.exists THEN file_at_start.content ELSE <<>>
        IN  /\ file.exists
            /\ file.content = before \o new_jobs
            /\ IsSelection(new_jobs, all_jobs,
                           {i \in 1..Len(all_jobs) : all_jobs[i] \notin Range(before)})

\* store [r1], scrape [r1, r2]: the store becomes [r1, r2]
C5_Witness ==
    /\ call.fn = "main"
    /\ pc = "done"
    /\ file_at_start.exists
    /\ Len(file_at_start.content) = 1
    /\ Len(all_jobs) = 2
    /\ all_jobs[1] = file_at_start.content[1]
    /\ new_jobs = <<all_jobs[2]>>
    /\ file.content = all_jobs

AllTargets == soup_targets \o [i \in 1..Len(api_targets) |-> api_targets[i].firm]

FailedTarget ==
    IF raised.phase = "soup" THEN raised.target ELSE Len(soup_targets) + raised.target

\* C8: a target whose processing fails (an HTML container without the title or
\* the location child, an API target answering a non-success status) aborts the
\* run there: no later target is fetched, no email is sent and jobs.json is as
\* it was before the run.
C8_NoPartialFailureIsolation ==
    /\ fault # "none" => pc = "aborted" /\ raised.phase \in {"soup", "api"}
    /\ pc = "aborted" /\ raised.phase \in {"soup", "api"} =>
        /\ fetched = SubSeq(AllTargets, 1, FailedTarget)
        /\ new_jobs = <<>>
        /\ env_reads = {}
        /\ smtp_sessions = 0
        /\ sent = <<>>
        /\ file = file_at_start

\* the first target fails while a store exists: the later target is not fetched
C8_Witness ==
    /\ pc = "aborted"
    /\ fault = "missing child"
    /\ raised.phase = "soup"
    /\ Len(fetched) < Len(AllTargets)
    /\ file.exists
    /\ file.content # <<>>

\* C9: a listing stored when a run starts is not in that run's email, so a
\* listing reported by a run that completed is not reported by a later run.
C9_NeverReportedTwice ==
    call.fn = "main" =>
        /\ notified(sent) \cap Range(load_jobs(file_at_start)) = {}
        /\ notified(sent) \cap reported = {}
        /\ reported \subseteq Range(load_jobs(file_at_start))

\* a later run scrapes a reported listing again and reports only the other one
C9_Witness ==
    /\ call.fn = "main"
    /\ run > 1
    /\ sent # <<>>
    /\ \E i \in 1..Len(all_jobs) : all_jobs[i] \in reported
    /\ Len(all_jobs) > Len(new_jobs)

\* C10: jobs.json is written only after the notification has succeeded: a run
\* whose email fails ends with jobs.json unchanged, so that the same scrape
\* gives the same new listings again, and no listing is stored without having
\* been sent in an email.
C10_StoreOnlyAfterNotification ==
    call.fn = "main" =>
        /\ file # file_at_start =>
              new_jobs = <<>> \/ (Len(sent) = 1 /\ sent[1].jobs = new_jobs)
        /\ pc = "aborted" /\ raised.phase = "send" =>
              /\ file = file_at_start
              /\ new_jobs # <<>>
              /\ identify_new_jobs(all_jobs, load_jobs(file)) = new_jobs
        /\ Range(load_jobs(file)) \subseteq reported \cup notified(sent)

\* the SMTP exchange fails in a later run, over a store that exists
C10_Witness ==
    /\ call.fn = "main"
    /\ pc = "aborted"
    /\ raised.phase = "send"
    /\ smtp_sessions = 1
    /\ sent = <<>>
    /\ file.exists
    /\ file.content # <<>>
    /\ file = file_at_start

ApiWellFormed(data, params) ==
    /\ data.shape \in {"array", "object"}
    /\ data.shape = "object" => "key" \in DOMAIN params /\ params.key \in DOMAIN data.fields
    /\ {"title", "location"} \subseteq DOMAIN params
    /\ LET items == IF data.shape = "object" THEN data.fields[params.key] ELSE data.items
       IN  \A i \in 1..Len(items) :
               /\ {params.title, params.location} \subseteq DOMAIN items[i]
               /\ "link" \in DOMAIN params /\ params.link # ""
                     => params.link \in DOMAIN items[i]

\* C6: process_api_response gives one record per element of the listing array
\* (the response itself, or response[params.key] of an object), in order, with
\* the firm, the element's title and location, and as link the element's value
\* under the configured link field or "" when no link field is configured, the
\* mapping having no link entry included.
C6_ApiRecords ==
    Returned("process_api_response") /\ ApiWellFormed(call.data, call.params) =>
        LET items == IF call.data.shape = "object"
                     THEN call.data.fields[call.params.key] ELSE call.data.items
            linked == "link" \in DOMAIN call.params /\ call.params.link # ""
        IN  /\ ret.raised = "none"
            /\ Len(ret.value) = Len(items)
            /\ \A i \in 1..Len(items) :
                  /\ ret.value[i].firm = call.firm_name
                  /\ ret.value[i].title = items[i][call.params.title]
                  /\ ret.value[i].location = items[i][call.params.location]
                  /\ ret.value[i].link =
                        IF linked THEN items[i][call.params.link] ELSE <<>>

\* C7: in the HTML collector a non-success HTTP status gives no listing,
\* whatever the body, and raises nothing.
C7_NoListingOnNonSuccessStatus ==
    Returned("scrape_job_listings") /\ call.response.status_code # HTTP_OK =>
        ret.raised = "none" /\ ret.value = <<>>

====
